---------------------------- MODULE Spec2Model ----------------------------
(***************************************************************************)
(* Model of src/main.py: the retry wrapper generate_report, the PDF        *)
(* renderer create_pdf_report and the part of the Streamlit script main    *)
(* that connects them through st.session_state.                            *)
(*                                                                         *)
(* A text is a sequence of lexical tokens.  The token "\n" is the line     *)
(* break, " " is a run of blanks, "**" is the markdown emphasis marker, a  *)
(* section name is one token, every other token is a word.                 *)
(***************************************************************************)
EXTENDS Integers, Sequences, FiniteSets, TLC

(***************************************************************************)
(* Bounds of the model.                                                    *)
(***************************************************************************)
MaxLines == 3       \* lines of a narrative handed to create_pdf_report
MaxRespLines == 2   \* lines of a text answered by the generator (main)
MaxRuns == 2        \* script runs (main) / direct calls (renderer)

(***************************************************************************)
(* Program constants.                                                      *)
(***************************************************************************)
max_retries == 3
retry_delay == 2

\* the keys of the dict `sections`, in insertion order
sections ==
    <<"CLINICAL INFORMATION", "TECHNIQUE", "COMPARISON", "FINDINGS", "IMPRESSION">>

\* the value generate_report returns when the last attempt fails
Sentinel == <<"Error generating report.">>

\* Python's None / a key missing from st.session_state
Absent == <<"(none)">>

(***************************************************************************)
(* String operations of the renderer, on token sequences.                  *)
(***************************************************************************)
RECURSIVE split(_)
\* str.split('\n'): k line breaks give k+1 lines, the empty text one empty line
split(text) ==
    IF \E k \in 1..Len(text) : text[k] = "\n"
    THEN LET k == CHOOSE k \in 1..Len(text) :
                      text[k] = "\n" /\ \A j \in 1..(k-1) : text[j] # "\n"
         IN <<SubSeq(text, 1, k-1)>> \o split(SubSeq(text, k+1, Len(text)))
    ELSE <<text>>

RECURSIVE lstrip(_)
lstrip(s) == IF s # <<>> /\ Head(s) = " " THEN lstrip(Tail(s)) ELSE s

RECURSIVE rstrip(_)
rstrip(s) ==
    IF s # <<>> /\ s[Len(s)] = " " THEN rstrip(SubSeq(s, 1, Len(s)-1)) ELSE s

\* str.strip()
strip(s) == rstrip(lstrip(s))

upperTok(t) ==
    CASE t = "findings" -> "FINDINGS"
      [] t = "a" -> "A"
      [] t = "b" -> "B"
      [] OTHER -> t

\* str.upper()
upper(s) == [k \in 1..Len(s) |-> upperTok(s[k])]

\* str.startswith(section), section being one token
startswith(s, section) == Len(s) >= 1 /\ s[1] = section

\* str.replace("**", "")
IsNotMarker(t) == t # "**"
replaceMarkers(s) == SelectSeq(s, IsNotMarker)

\* lines 176-181: the first key of `sections` the line starts with, or Absent
matchSection(line) ==
    IF \E k \in 1..Len(sections) : startswith(upper(line), sections[k])
    THEN LET k == CHOOSE k \in 1..Len(sections) :
                      /\ startswith(upper(line), sections[k])
                      /\ \A j \in 1..(k-1) : ~startswith(upper(line), sections[j])
         IN <<sections[k]>>
    ELSE Absent

\* line 193: the line starts with a section name other than current_section
otherSection(line, cur) ==
    \E k \in 1..Len(sections) :
        <<sections[k]>> # cur /\ startswith(upper(line), sections[k])

(***************************************************************************)
(* Inputs.                                                                 *)
(***************************************************************************)
LineKinds ==
    { <<>>,                              \* empty line
      <<" ">>,                           \* blanks only
      <<"CLINICAL INFORMATION">>,
      <<"FINDINGS">>,
      <<"IMPRESSION">>,
      <<"findings", ":">>,               \* lower case, trailing text
      <<"**", "FINDINGS", "**">>,        \* the header as the prompt shows it
      <<"a">>,
      <<" ", "**", "b", "**", " ">>,
      <<"**">> }                         \* emphasis markers only

RespLineKinds == { <<>>, <<" ">>, <<"FINDINGS">>, <<"a">> }

RECURSIVE join(_)
\* "\n".join(ls)
join(ls) ==
    IF Len(ls) = 1 THEN ls[1] ELSE ls[1] \o <<"\n">> \o join(Tail(ls))

TextsOf(kinds, n) == { join(ls) : ls \in UNION { [1..m -> kinds] : m \in 1..n } }

Narratives == TextsOf(LineKinds, MaxLines)
Responses == TextsOf(RespLineKinds, MaxRespLines)

\* image bytes: none, bytes fpdf can embed, bytes on which pdf.image raises
ImageKinds == {"good", "bad"}

(***************************************************************************)
(* State.                                                                  *)
(***************************************************************************)
VARIABLES
    pc,               \* position of the running code
    runs,             \* script runs / direct calls so far
    uploaded,         \* st.file_uploader: "none" or an image kind
    report,           \* st.session_state.report, or Absent
    image_data,       \* st.session_state.image_data, or "none"
    attempt,          \* generate_report: loop variable
    trace,            \* generate_report: generator calls and sleeps of this call
    ret,              \* generate_report: value returned, or Absent
    report_text,      \* create_pdf_report: argument
    img,              \* create_pdf_report: argument image_data
    lines,            \* create_pdf_report: report_text.split('\n')
    i,                \* create_pdf_report: index into lines (1-based)
    current_section,  \* create_pdf_report: <<name>> or Absent
    out,              \* create_pdf_report: what was written to the pdf, in order
    passes,           \* create_pdf_report: passes through the outer while, modulo 2
    tmpFiles,         \* transient image files on disk
    madeTmp           \* this call created a transient file

sessionVars == <<uploaded, report, image_data>>
genVars == <<attempt, trace, ret>>
renderVars == <<report_text, img, lines, i, current_section, out, passes, madeTmp>>
vars == <<pc, runs, uploaded, report, image_data, attempt, trace, ret,
          report_text, img, lines, i, current_section, out, passes, tmpFiles,
          madeTmp>>

Ev(kind, text, src) == [kind |-> kind, text |-> text, src |-> src]
Step(ev, text, delay) == [ev |-> ev, text |-> text, delay |-> delay]

Init ==
    /\ pc = "idle"
    /\ runs = 0
    /\ uploaded = "none"
    /\ report = Absent
    /\ image_data = "none"
    /\ attempt = 0
    /\ trace = <<>>
    /\ ret = Absent
    /\ report_text = <<>>
    /\ img = "none"
    /\ lines = <<>>
    /\ i = 1
    /\ current_section = Absent
    /\ out = <<>>
    /\ passes = 0
    /\ tmpFiles = 0
    /\ madeTmp = FALSE

(***************************************************************************)
(* generate_report                                                         *)
(***************************************************************************)
\* variant: a blank answer taken for a failure
returnedMut(t) == IF strip(t) = <<>> THEN Sentinel ELSE t
\* lines 87-88: the value returned for the text of a successful call
returned(t) == t

\* lines 77-88: the call succeeds; its text is returned at once
AttemptOk ==
    /\ pc = "gen"
    /\ \E t \in Responses :
          /\ trace' = Append(trace, Step("ok", t, 0))
          /\ ret' = returned(t)
    /\ pc' = "gen_ret"
    /\ UNCHANGED <<runs, sessionVars, attempt, renderVars, tmpFiles>>

\* variant: the sleep not guarded by the test of the last attempt
afterFailureMut(k) == <<Step("sleep", <<>>, retry_delay)>>
\* lines 89-94: what follows a failed call: nothing more on the last attempt
afterFailure(k) ==
    IF k = max_retries - 1 THEN <<>> ELSE <<Step("sleep", <<>>, retry_delay)>>

\* lines 77-94: the call raises; sentinel on the last attempt, else sleep
AttemptFail ==
    /\ pc = "gen"
    /\ IF attempt = max_retries - 1
       THEN /\ trace' = trace \o <<Step("fail", <<>>, 0)>> \o afterFailure(attempt)
            /\ ret' = Sentinel
            /\ pc' = "gen_ret"
            /\ UNCHANGED attempt
       ELSE /\ trace' = trace \o <<Step("fail", <<>>, 0)>> \o afterFailure(attempt)
            /\ attempt' = attempt + 1
            /\ pc' = "gen"
            /\ UNCHANGED ret
    /\ UNCHANGED <<runs, sessionVars, renderVars, tmpFiles>>

(***************************************************************************)
(* main                                                                    *)
(***************************************************************************)
\* lines 324-345: a file is uploaded and PIL opens it
Upload ==
    /\ pc = "idle"
    /\ \E k \in ImageKinds : uploaded' = k
    /\ UNCHANGED <<pc, runs, report, image_data, genVars, renderVars, tmpFiles>>

\* lines 348-377: the button is pressed, generate_report is entered
Click ==
    /\ pc = "idle"
    /\ uploaded # "none"
    /\ runs < MaxRuns
    /\ runs' = runs + 1
    /\ attempt' = 0
    /\ trace' = <<>>
    /\ ret' = Absent
    /\ pc' = "gen"
    /\ UNCHANGED <<sessionVars, renderVars, tmpFiles>>

\* lines 378-391: `if report:` stores whatever generate_report returned
Store ==
    /\ pc = "gen_ret"
    /\ IF ret # <<>>
       THEN /\ report' = ret
            /\ image_data' = uploaded
       ELSE UNCHANGED <<report, image_data>>
    /\ pc' = "col2"
    /\ UNCHANGED <<runs, uploaded, genVars, renderVars, tmpFiles>>

\* a script run without the button pressed
Rerun ==
    /\ pc = "idle"
    /\ runs < MaxRuns
    /\ runs' = runs + 1
    /\ pc' = "col2"
    /\ UNCHANGED <<sessionVars, genVars, renderVars, tmpFiles>>

\* lines 399-415: the stored report is rendered, or the instructions are shown
Col2 ==
    /\ pc = "col2"
    /\ IF report # Absent
       THEN /\ report_text' = report
            /\ img' = image_data
            /\ pc' = "r_begin"
       ELSE /\ pc' = "idle"
            /\ UNCHANGED <<report_text, img>>
    /\ UNCHANGED <<runs, sessionVars, genVars, lines, i, current_section, out,
                   passes, tmpFiles, madeTmp>>

\* lines 416-433: the call ended; download button, or st.error and the text area
CallEnds ==
    /\ pc \in {"returned", "raised"}
    /\ pc' = "idle"
    /\ report_text' = <<>>
    /\ img' = "none"
    /\ lines' = <<>>
    /\ i' = 1
    /\ current_section' = Absent
    /\ out' = <<>>
    /\ passes' = 0
    /\ madeTmp' = FALSE
    /\ UNCHANGED <<runs, sessionVars, genVars, tmpFiles>>

(***************************************************************************)
(* create_pdf_report                                                       *)
(***************************************************************************)
\* lines 97-98: a caller other than main enters create_pdf_report
Call ==
    /\ pc = "idle"
    /\ runs < MaxRuns
    /\ runs' = runs + 1
    /\ \E t \in Narratives, g \in ImageKinds \cup {"none"} :
          /\ report_text' = t
          /\ img' = g
    /\ pc' = "r_begin"
    /\ UNCHANGED <<sessionVars, genVars, lines, i, current_section, out,
                   passes, tmpFiles, madeTmp>>

\* lines 99-132: institution header, report id and date, patient box
pageHeader == <<Ev("header", <<>>, 0)>>

\* variant: only the first line of the text written
firstPassMut(text) == <<Ev("raw", split(text)[1], 0)>>
\* lines 147-152: the whole report text, written with one multi_cell
firstPass(text) == <<Ev("raw", text, 0)>>

\* lines 99-167: page header, image block, the whole text, start of the scan
RenderBegin ==
    /\ pc = "r_begin"
    /\ IF img = "bad"
       THEN \* line 136 created the file, line 143 raised, line 145 never ran
            /\ tmpFiles' = tmpFiles + 1
            /\ madeTmp' = TRUE
            /\ out' = pageHeader
            /\ pc' = "raised"
            /\ UNCHANGED <<lines, i, current_section>>
       ELSE \* no image, or the file was created, embedded and unlinked
            /\ tmpFiles' = tmpFiles
            /\ madeTmp' = (img # "none")
            /\ out' = pageHeader
                      \o (IF img # "none" THEN <<Ev("image", <<>>, 0)>> ELSE <<>>)
                      \o firstPass(report_text)
            /\ lines' = split(report_text)
            /\ i' = 1
            /\ current_section' = Absent
            /\ pc' = "scan"
    /\ passes' = 0
    /\ UNCHANGED <<runs, sessionVars, genVars, report_text, img>>

RECURSIVE collect(_, _, _, _)
\* lines 190-197: the inner while; gives the new index and section_content
collect(ls, k, cur, acc) ==
    IF k > Len(ls) THEN [i |-> k, section_content |-> acc]
    ELSE LET line == strip(ls[k])
         IN IF otherSection(line, cur) THEN [i |-> k, section_content |-> acc]
            ELSE collect(ls, k + 1, cur,
                         IF line # <<>> THEN Append(acc, [line |-> line, src |-> k])
                         ELSE acc)

RECURSIVE emit(_)
\* lines 200-204: each collected line, markers removed, written unless empty
emit(content) ==
    IF content = <<>> THEN <<>>
    ELSE LET content_line == strip(replaceMarkers(Head(content).line))
         IN (IF content_line # <<>>
             THEN <<Ev("content", content_line, Head(content).src)>>
             ELSE <<>>) \o emit(Tail(content))

\* lines 168-204: one pass through the body of the outer while
LoopIter ==
    /\ pc = "scan"
    /\ i <= Len(lines)
    /\ LET line == strip(lines[i])
       IN IF line = <<>>
          THEN /\ i' = i + 1
               /\ UNCHANGED <<current_section, out>>
          ELSE IF matchSection(line) # Absent
          THEN /\ current_section' = matchSection(line)
               /\ i' = i + 1
               /\ out' = Append(out, Ev("title", matchSection(line), i))
          ELSE IF current_section # Absent
          THEN LET c == collect(lines, i, current_section, <<>>)
               IN /\ i' = c.i
                  /\ out' = out \o emit(c.section_content)
                  /\ UNCHANGED current_section
          ELSE \* neither branch runs and i is not advanced
               UNCHANGED <<i, current_section, out>>
    /\ passes' = 1 - passes
    /\ UNCHANGED <<pc, runs, sessionVars, genVars, report_text, img, lines,
                   tmpFiles, madeTmp>>

\* lines 168, 209-221: the scan is over; signature, disclaimer, return
RenderEnd ==
    /\ pc = "scan"
    /\ i > Len(lines)
    /\ out' = out \o <<Ev("signature", <<>>, 0), Ev("disclaimer", <<>>, 0)>>
    /\ pc' = "returned"
    /\ UNCHANGED <<runs, sessionVars, genVars, report_text, img, lines, i,
                   current_section, passes, tmpFiles, madeTmp>>

(***************************************************************************)
(* What a call of create_pdf_report wrote, read back from `out`.           *)
(***************************************************************************)
Positions(kind) == { k \in 1..Len(out) : out[k].kind = kind }

\* the section title a position of `out` stands under, or Absent
TitleAbove(k) ==
    IF \E t \in Positions("title") : t < k
    THEN LET t == CHOOSE t \in Positions("title") :
                      t < k /\ \A u \in Positions("title") : u < k => u <= t
         IN out[t].text
    ELSE Absent

IsTitle(e) == e.kind = "title"
TitleTexts ==
    LET ts == SelectSeq(out, IsTitle) IN [k \in 1..Len(ts) |-> ts[k].text]

IsHeaderLine(j) == matchSection(strip(lines[j])) # Absent
IsBlankLine(j) == strip(lines[j]) = <<>>

\* the header line a line follows most closely, 0 when it follows none
HeaderBefore(j) ==
    IF \E h \in 1..(j-1) : IsHeaderLine(h)
    THEN CHOOSE h \in 1..(j-1) :
             IsHeaderLine(h) /\ \A g \in 1..(j-1) : IsHeaderLine(g) => g <= h
    ELSE 0

ZeroHeaders(text) ==
    \A j \in 1..Len(split(text)) : matchSection(strip(split(text)[j])) = Absent

(***************************************************************************)
(* C1: for every narrative without a recognized header, create_pdf_report  *)
(* terminates and returns a document that holds the whole raw narrative    *)
(* and neither a section title nor a section content line.                 *)
(***************************************************************************)
C1_ZeroHeadersReturnsRaw ==
    (pc = "scan" /\ ZeroHeaders(report_text))
        ~> /\ pc = "returned"
           /\ \E k \in Positions("raw") : out[k].text = report_text
           /\ Positions("title") = {}
           /\ Positions("content") = {}

(***************************************************************************)
(* C2: when every attempt fails, generate_report has called the generator  *)
(* exactly 3 times, slept the delay of 2 exactly twice, once between two   *)
(* consecutive attempts and not after the last, and returns the sentinel.  *)
(***************************************************************************)
C2_AllAttemptsFail ==
    (pc = "gen_ret" /\ \A k \in 1..Len(trace) : trace[k].ev # "ok")
        => /\ trace = << Step("fail", <<>>, 0), Step("sleep", <<>>, 2),
                         Step("fail", <<>>, 0), Step("sleep", <<>>, 2),
                         Step("fail", <<>>, 0) >>
           /\ ret = Sentinel

C2_Witness ==
    /\ pc = "gen_ret"
    /\ Len(trace) = 5
    /\ trace[5].ev = "fail"
    /\ ret = Sentinel

(***************************************************************************)
(* C3: when attempts 1..k-1 fail and attempt k (k in 1..3) succeeds,       *)
(* generate_report returns exactly the text of attempt k, also an empty or *)
(* blank one, after k calls and k-1 delays; nothing is called and nothing  *)
(* is slept after the successful attempt.                                  *)
(***************************************************************************)
C3_FirstSuccessReturned ==
    /\ \A k \in 1..Len(trace) : trace[k].ev = "ok" => k = Len(trace)
    /\ (pc = "gen_ret" /\ trace # <<>> /\ trace[Len(trace)].ev = "ok")
          => /\ \E k \in 1..3 :
                   /\ Len(trace) = 2 * k - 1
                   /\ \A j \in 1..(k-1) :
                          /\ trace[2*j - 1] = Step("fail", <<>>, 0)
                          /\ trace[2*j] = Step("sleep", <<>>, 2)
             /\ ret = trace[Len(trace)].text

C3_Witness ==
    /\ pc = "gen_ret"
    /\ Len(trace) = 5
    /\ trace[5].ev = "ok"
    /\ trace[5].text = <<" ">>
    /\ ret = <<" ">>

(***************************************************************************)
(* C4: when a call of create_pdf_report has ended, by return or by         *)
(* exception, no transient image file is left on disk, and a call without  *)
(* image_data creates none.                                                *)
(***************************************************************************)
C4_NoTransientFileLeft ==
    /\ pc \in {"idle", "returned", "raised"} => tmpFiles = 0
    /\ img = "none" => ~madeTmp

(***************************************************************************)
(* C5: no exception escapes create_pdf_report: a call that ended has       *)
(* returned, and the document holds the raw narrative, also when embedding *)
(* the image failed.                                                       *)
(***************************************************************************)
C5_NoExceptionEscapes ==
    pc \in {"returned", "raised"}
        => /\ pc = "returned"
           /\ \E k \in Positions("raw") : out[k].text = report_text

(***************************************************************************)
(* C6: the section titles of the returned document are the sections that   *)
(* have content, in the order of the taxonomy, each once.                  *)
(***************************************************************************)
C6_TitlesInTaxonomyOrder ==
    pc = "returned"
        => LET HasContent(s) ==
                   \E k \in Positions("content") : TitleAbove(k) = <<s>>
               wanted == SelectSeq(sections, HasContent)
           IN TitleTexts = [k \in 1..Len(wanted) |-> <<wanted[k]>>]

(***************************************************************************)
(* C7: for every narrative, each non-blank line that is no header and      *)
(* follows a header is rendered (markers removed, trimmed; a line that is  *)
(* empty then has nothing to render) once, under the title of the header   *)
(* it follows most closely, and the lines of a section keep their order.   *)
(***************************************************************************)
ContentLine(j) ==
    /\ ~IsBlankLine(j)
    /\ ~IsHeaderLine(j)
    /\ HeaderBefore(j) # 0

Cleaned(j) == strip(replaceMarkers(strip(lines[j])))

Attributed ==
    /\ \A j \in 1..Len(lines) :
          (ContentLine(j) /\ Cleaned(j) # <<>>)
              => /\ Cardinality({ k \in Positions("content") : out[k].src = j }) = 1
                 /\ \A k \in Positions("content") :
                        out[k].src = j
                            => /\ out[k].text = Cleaned(j)
                               /\ TitleAbove(k) = matchSection(strip(lines[HeaderBefore(j)]))
    /\ \A k1, k2 \in Positions("content") :
          (k1 < k2 /\ ContentLine(out[k1].src) /\ ContentLine(out[k2].src))
              => out[k1].src < out[k2].src

C7_ContentUnderLatestHeader ==
    (pc = "scan" /\ \E j \in 1..Len(lines) : ContentLine(j))
        ~> (pc = "returned" /\ Attributed)

(***************************************************************************)
(* C8: a call of create_pdf_report that returns has written the whole raw  *)
(* narrative exactly once, before every section title and content line.    *)
(***************************************************************************)
C8_RawOnceBeforeSections ==
    pc = "returned"
        => /\ Cardinality(Positions("raw")) = 1
           /\ \A k \in Positions("raw") :
                  /\ out[k].text = report_text
                  /\ \A j \in Positions("title") \cup Positions("content") : k < j

C8_Witness ==
    /\ pc = "returned"
    /\ Positions("title") # {}
    /\ Positions("content") # {}
    /\ Len(lines) > 1

(***************************************************************************)
(* C9: a header line, also one that names the section being collected, is  *)
(* never written as a content line.                                        *)
(***************************************************************************)
C9_HeaderNeverContent ==
    \A k \in Positions("content") : ~IsHeaderLine(out[k].src)

(***************************************************************************)
(* C10: st.session_state.report is only ever set to the text a successful  *)
(* generator attempt returned, never to the failure sentinel.              *)
(***************************************************************************)
C10_OnlySuccessfulTextStored ==
    [][report' # report
          => /\ trace # <<>>
             /\ trace[Len(trace)].ev = "ok"
             /\ report' = trace[Len(trace)].text]_vars

\* Lemma: in the calls that return, the content lines stand under the right
\* title and in input order.
AttributedWhenReturned ==
    (pc = "returned" /\ \E j \in 1..Len(lines) : ContentLine(j)) => Attributed

(***************************************************************************)
(* Specifications.                                                         *)
(***************************************************************************)
\* the Streamlit script
Next ==
    \/ Upload
    \/ Click
    \/ AttemptOk
    \/ AttemptFail
    \/ Store
    \/ Rerun
    \/ Col2
    \/ RenderBegin
    \/ LoopIter
    \/ RenderEnd
    \/ CallEnds

Spec == Init /\ [][Next]_vars

\* create_pdf_report called with any narrative and any image
RenderNext ==
    \/ Call
    \/ RenderBegin
    \/ LoopIter
    \/ RenderEnd
    \/ CallEnds

RenderSpec == Init /\ [][RenderNext]_vars

\* a call that was entered keeps running: the code is sequential
RenderStep == RenderBegin \/ LoopIter \/ RenderEnd

FairRenderSpec == Init /\ [][RenderNext]_vars /\ WF_vars(RenderStep)

=============================================================================
